---- MODULE Spec2Model ----
(***************************************************************************)
(* A model of the WHOIS client of main.go: main, recursiveWhoIsQuery (the  *)
(* batch loop) and performSingleWhoIsQuery (dial, write, line-by-line read *)
(* with redirect detection, recursion and the size ceiling), together with *)
(* the WHOIS servers as the environment of the program.                    *)
(*                                                                         *)
(* ToLower, TrimSpace, HasPrefix and byte slicing are computed as the Go    *)
(* standard library computes them on ASCII text.                           *)
(***************************************************************************)
EXTENDS Integers, Sequences, FiniteSets, TLC

VARIABLES
    opts,         \* Options{Server, Port} as parseOptions returned them
    domains,      \* flag.Args(): the sequence of domain strings
    env,          \* environment: the lines servers may send (lines), and how
                  \* many of them within one top-level query (max)
    mpc,          \* position of main / recursiveWhoIsQuery
    exitCode,     \* os.Exit status, -1 while the process has not exited
    i,            \* index (1-based) of the range loop of recursiveWhoIsQuery
    responseMap,  \* the map recursiveWhoIsQuery builds
    stack,        \* call stack of performSingleWhoIsQuery frames, top last
    conns,        \* the TCP connections dialed by the current top-level call
    calls,        \* history: arguments of every call made by the batch loop
    qres          \* history: result returned by every such call, in order

vars == <<opts, domains, env, mpc, exitCode, i, responseMap, stack, conns,
          calls, qres>>

----------------------------------------------------------------------------
(* Bounds of the model *)

\* most lines the servers send within one top-level query (all hops together)
MaxLines == 2
\* the same, in the runs with long lines and in the runs of a batch
MaxLongLines == 3
MaxBatchLines == 1
\* the same, in the runs with chains of redirects
MaxChainLines == 3
\* deepest call stack of performSingleWhoIsQuery that is explored
MaxHops == 3
\* longest batch of domains
MaxDomains == 2
\* length in bytes, newline included, of the long line servers may send
BigLen == 16384

----------------------------------------------------------------------------
(* Program constants *)

defaultWhoisPort == 43

maxBufferSize == 32 * 1024

PrefixBytes == <<"w", "h", "o", "i", "s", " ", "s", "e", "r", "v", "e", "r", ":">>

----------------------------------------------------------------------------
(* Go strings and the strings package, on ASCII text.                      *)
(* A string is kept run-length encoded: a sequence of runs [c, n], n >= 1  *)
(* copies of the byte c, no two adjacent runs of the same byte. Every      *)
(* string has exactly one such form, so = is equality of strings.          *)

Run(c, n) == [c |-> c, n |-> n]

RECURSIVE Norm(_)
\* the string of a sequence of runs: empty runs dropped, equal neighbours merged
Norm(rs) ==
    IF rs = <<>> THEN <<>>
    ELSE LET h == Head(rs)
             t == Norm(Tail(rs))
         IN  IF h.n = 0 THEN t
             ELSE IF t # <<>> /\ t[1].c = h.c
             THEN <<Run(h.c, h.n + t[1].n)>> \o Tail(t)
             ELSE <<h>> \o t

RECURSIVE Runs(_)
\* one run per byte
Runs(bytes) ==
    IF bytes = <<>> THEN <<>>
    ELSE <<Run(Head(bytes), 1)>> \o Runs(Tail(bytes))

\* the string literal made of the given bytes
Str(bytes) == Norm(Runs(bytes))

\* s + t: the runs of s, then those of t, the two runs that meet merged when
\* they are of the same byte
Cat(s, t) ==
    IF s = <<>> THEN t
    ELSE IF t = <<>> THEN s
    ELSE IF s[Len(s)].c # t[1].c THEN s \o t
    ELSE SubSeq(s, 1, Len(s) - 1)
             \o <<Run(t[1].c, s[Len(s)].n + t[1].n)>>
             \o Tail(t)

RECURSIVE StrLen(_)
\* len(s), in bytes
StrLen(s) == IF s = <<>> THEN 0 ELSE Head(s).n + StrLen(Tail(s))

RECURSIVE Take(_, _)
\* s[:n]
Take(s, n) ==
    IF n = 0 \/ s = <<>> THEN <<>>
    ELSE IF Head(s).n <= n THEN <<Head(s)>> \o Take(Tail(s), n - Head(s).n)
    ELSE <<Run(Head(s).c, n)>>

RECURSIVE SliceFrom(_, _)
\* s[n:], n counted in bytes
SliceFrom(s, n) ==
    IF n = 0 \/ s = <<>> THEN s
    ELSE IF Head(s).n <= n THEN SliceFrom(Tail(s), n - Head(s).n)
    ELSE <<Run(Head(s).c, Head(s).n - n)>> \o Tail(s)

Upper == <<"A", "B", "C", "D", "E", "F", "G", "H", "I", "J", "K", "L", "M",
           "N", "O", "P", "Q", "R", "S", "T", "U", "V", "W", "X", "Y", "Z">>

Lower == <<"a", "b", "c", "d", "e", "f", "g", "h", "i", "j", "k", "l", "m",
           "n", "o", "p", "q", "r", "s", "t", "u", "v", "w", "x", "y", "z">>

ToLowerChar(c) ==
    IF \E n \in 1..26 : Upper[n] = c
    THEN Lower[CHOOSE n \in 1..26 : Upper[n] = c]
    ELSE c

RECURSIVE LowerRuns(_)
LowerRuns(s) ==
    IF s = <<>> THEN <<>>
    ELSE <<Run(ToLowerChar(Head(s).c), Head(s).n)>> \o LowerRuns(Tail(s))

ToLower(s) == Norm(LowerRuns(s))

\* the ASCII white space of unicode.IsSpace that the model's alphabet holds
IsSpace(c) == c \in {" ", "\t", "\n", "\r", "\f"}

RECURSIVE TrimLeft(_)
TrimLeft(s) ==
    IF s # <<>> /\ IsSpace(Head(s).c) THEN TrimLeft(Tail(s)) ELSE s

RECURSIVE TrimRight(_)
TrimRight(s) ==
    IF s # <<>> /\ IsSpace(s[Len(s)].c)
    THEN TrimRight(SubSeq(s, 1, Len(s) - 1)) ELSE s

TrimSpace(s) == TrimRight(TrimLeft(s))

HasPrefix(s, p) == StrLen(s) >= StrLen(p) /\ Take(s, StrLen(p)) = p

\* the literal "whois server:" of lines 75 and 76
Prefix == Str(PrefixBytes)

----------------------------------------------------------------------------
(* The environment: server names, domains, and the lines servers send *)

ServerA == Str(<<"a">>)
ServerB == Str(<<"b">>)

Ports == {defaultWhoisPort, 4343}

\* domain strings of the command line; the empty string is a legal argument
Domains == {Str(<<"d">>), Str(<<>>)}
BatchDomains == {Str(<<"d">>), Str(<<"e">>)}

\* "x\n"
DataLine == Str(<<"x", "\n">>)
\* "Whois Server: b\r\n"
RedirB == Str(<<"W", "h", "o", "i", "s", " ", "S", "e", "r", "v", "e", "r", ":",
            " ", "b", "\r", "\n">>)
\* "whois server: a\n"
RedirA == Str(<<"w", "h", "o", "i", "s", " ", "s", "e", "r", "v", "e", "r", ":",
            " ", "a", "\n">>)
\* "WHOIS SERVER: \n"
RedirEmpty == Str(<<"W", "H", "O", "I", "S", " ", "S", "E", "R", "V", "E", "R",
                ":", " ", "\n">>)
\* " whois server: b\n", the hint indented by one space
IndentB == Str(<<" ", "w", "h", "o", "i", "s", " ", "s", "e", "r", "v", "e", "r",
             ":", " ", "b", "\n">>)
\* a line of BigLen bytes: "xxx...x\n"
BigLine == Cat(<<Run("x", BigLen - 1)>>, Str(<<"\n">>))

\* a hint of BigLen bytes: "whois server: b", spaces up to the length, "\n"
BigRedirB ==
    Cat(Cat(Str(<<"w", "h", "o", "i", "s", " ", "s", "e", "r", "v", "e", "r", ":",
                  " ", "b">>),
            <<Run(" ", BigLen - 16)>>),
        Str(<<"\n">>))

QueryLines == {DataLine, RedirB, RedirA, RedirEmpty, IndentB}
CeilingLines == {DataLine, BigLine, RedirA, BigRedirB}
BatchLines == {DataLine, RedirB}
ChainLines == {DataLine, RedirA, RedirB}

\* every line a server of the model can send
Lines == QueryLines \cup CeilingLines \cup BatchLines \cup ChainLines

\* what a stream may end with after its last complete line: nothing, or an
\* unterminated fragment
Tails == {Str(<<>>), Str(<<"y">>)}

----------------------------------------------------------------------------
(* Values of the program *)

\* WHOISResult{Response, Error}; Error is "nil" or the kind of the error
Result(response, error) == [Response |-> response, Error |-> error]

\* the activation record of one call of performSingleWhoIsQuery
Frame(server, port, domain) ==
    [server |-> server, port |-> port, domain |-> domain, pc |-> "dial",
     conn |-> 0, sb |-> <<>>, res |-> Result(<<>>, "nil")]

\* one net.Dial and what became of it: ok (dial succeeded), open (not yet
\* closed by the client), closes (calls of conn.Close), wrote (strings written),
\* wfail (the write failed), sent (complete lines the server has sent),
\* rd (lines read so far), srv (server end: "open", "eof", "reset"), tail
Conn(server, port, ok) ==
    [server |-> server, port |-> port, ok |-> ok, open |-> ok, closes |-> 0,
     wrote |-> <<>>, wfail |-> FALSE, sent |-> <<>>, rd |-> 0,
     srv |-> "open", tail |-> <<>>]

Top == stack[Len(stack)]

SetTop(f) == [stack EXCEPT ![Len(stack)] = f]

RECURSIVE SentUpTo(_)
\* lines sent on the first n connections
SentUpTo(n) == IF n = 0 THEN 0 ELSE Len(conns[n].sent) + SentUpTo(n - 1)

LinesSent == SentUpTo(Len(conns))

----------------------------------------------------------------------------
(* performSingleWhoIsQuery *)

\* lines 74-75: the line is a redirect hint
IsHint(line) == HasPrefix(TrimSpace(ToLower(line)), Prefix)

\* line 76: the target taken from the line
Redirect(line) == TrimSpace(SliceFrom(line, StrLen(Prefix)))

\* lines 74-76 applied to each line a server can send, computed once
Scans ==
    {[line |-> l, hint |-> IsHint(l), redirect |-> Redirect(l)] : l \in Lines}

Scan(line) == CHOOSE h \in Scans : h.line = line

\* lines 75-77: the call recurses on this line, to Scan(line).redirect
Follows(line, server) ==
    /\ Scan(line).hint
    /\ Scan(line).redirect # <<>>
    /\ Scan(line).redirect # server

\* the test of line 82 written with > for >=
AtCeilingExceeded(sb) == StrLen(sb) > maxBufferSize

\* the test of line 82 left out
AtCeilingOmitted(sb) == FALSE

\* line 82
AtCeiling(sb) == StrLen(sb) >= maxBufferSize

\* line 78 putting the text of this hop before the result of the target
CallerResultMerged(f, res) ==
    [Response |-> Cat(f.sb, res.Response), Error |-> res.Error]

\* line 78 falling back on the text of this hop when the target failed
CallerResultFallback(f, res) ==
    IF res.Error # "nil" THEN [Response |-> f.sb, Error |-> "nil"] ELSE res

\* line 78: what the call returns once the recursive call returned res
CallerResult(f, res) == res

\* lines 50-55 left out: the connection is never closed
DeferredCloseOmitted(cs, f) == cs

\* lines 50-55: the deferred close of the frame's connection
DeferredClose(cs, f) ==
    IF cs[f.conn].ok
    THEN [cs EXCEPT ![f.conn].open = FALSE, ![f.conn].closes = @ + 1]
    ELSE cs

Running == stack # <<>>

\* line 46, err = nil
DialOK ==
    /\ Running /\ Top.pc = "dial"
    /\ conns' = Append(conns, Conn(Top.server, Top.port, TRUE))
    /\ stack' = SetTop([Top EXCEPT !.conn = Len(conns) + 1, !.pc = "write"])
    /\ UNCHANGED <<opts, domains, env, mpc, exitCode, i, responseMap,
                   calls, qres>>

\* lines 46-49 without the return: the call goes on to write
DialFailIgnored ==
    /\ Running /\ Top.pc = "dial"
    /\ conns' = Append(conns, Conn(Top.server, Top.port, FALSE))
    /\ stack' = SetTop([Top EXCEPT !.conn = Len(conns) + 1, !.pc = "write"])
    /\ UNCHANGED <<opts, domains, env, mpc, exitCode, i, responseMap,
                   calls, qres>>

\* lines 46-49, err # nil
DialFail ==
    /\ Running /\ Top.pc = "dial"
    /\ conns' = Append(conns, Conn(Top.server, Top.port, FALSE))
    /\ stack' = SetTop([Top EXCEPT !.conn = Len(conns) + 1, !.pc = "ret",
                                   !.res = Result(<<>>, "connect")])
    /\ UNCHANGED <<opts, domains, env, mpc, exitCode, i, responseMap,
                   calls, qres>>

\* line 57 ending the query line with "\n" alone
WriteOKLineFeedOnly ==
    /\ Running /\ Top.pc = "write"
    /\ conns' = [conns EXCEPT ![Top.conn].wrote =
                     Append(@, Cat(Top.domain, Str(<<"\n">>)))]
    /\ stack' = SetTop([Top EXCEPT !.pc = "read"])
    /\ UNCHANGED <<opts, domains, env, mpc, exitCode, i, responseMap,
                   calls, qres>>

\* line 57, err = nil
WriteOK ==
    /\ Running /\ Top.pc = "write"
    /\ conns' = [conns EXCEPT ![Top.conn].wrote =
                     Append(@, Cat(Top.domain, Str(<<"\r", "\n">>)))]
    /\ stack' = SetTop([Top EXCEPT !.pc = "read"])
    /\ UNCHANGED <<opts, domains, env, mpc, exitCode, i, responseMap,
                   calls, qres>>

\* lines 57-60, err # nil
WriteFail ==
    /\ Running /\ Top.pc = "write"
    /\ conns' = [conns EXCEPT ![Top.conn].wfail = TRUE]
    /\ stack' = SetTop([Top EXCEPT !.pc = "ret",
                                   !.res = Result(<<>>, "send")])
    /\ UNCHANGED <<opts, domains, env, mpc, exitCode, i, responseMap,
                   calls, qres>>

\* the server of the connection being read sends one more line
ServerSend(line) ==
    /\ Running /\ Top.pc = "read"
    /\ conns[Top.conn].srv = "open"
    /\ LinesSent < env.max
    /\ conns' = [conns EXCEPT ![Top.conn].sent = Append(@, line)]
    /\ UNCHANGED <<opts, domains, env, mpc, exitCode, i, responseMap,
                   stack, calls, qres>>

\* the server closes its end, after an optional unterminated fragment
ServerClose(tail) ==
    /\ Running /\ Top.pc = "read"
    /\ conns[Top.conn].srv = "open"
    /\ conns' = [conns EXCEPT ![Top.conn].srv = "eof", ![Top.conn].tail = tail]
    /\ UNCHANGED <<opts, domains, env, mpc, exitCode, i, responseMap,
                   stack, calls, qres>>

\* the connection breaks: a read may fail from now on, whatever is unread
ServerReset ==
    /\ Running /\ Top.pc = "read"
    /\ conns[Top.conn].srv = "open"
    /\ conns' = [conns EXCEPT ![Top.conn].srv = "reset"]
    /\ UNCHANGED <<opts, domains, env, mpc, exitCode, i, responseMap,
                   stack, calls, qres>>

\* lines 66-84 with err = nil: one line is read, appended and examined
ReadLine ==
    /\ Running /\ Top.pc = "read"
    /\ conns[Top.conn].rd < Len(conns[Top.conn].sent)
    /\ LET line == conns[Top.conn].sent[conns[Top.conn].rd + 1]
           sb   == Cat(Top.sb, line)
       IN  /\ Follows(line, Top.server) => Len(stack) < MaxHops
           /\ conns' = [conns EXCEPT ![Top.conn].rd = @ + 1]
           /\ stack' =
                IF Follows(line, Top.server)
                THEN Append(SetTop([Top EXCEPT !.sb = sb, !.pc = "call"]),
                            Frame(Scan(line).redirect, Top.port, Top.domain))
                ELSE IF AtCeiling(sb)
                THEN SetTop([Top EXCEPT !.sb = sb, !.pc = "ret",
                                        !.res = Result(sb, "nil")])
                ELSE SetTop([Top EXCEPT !.sb = sb])
    /\ UNCHANGED <<opts, domains, env, mpc, exitCode, i, responseMap,
                   calls, qres>>

\* lines 67-69 returning the read error as the error of the query
ReadEndEscalated ==
    /\ Running /\ Top.pc = "read"
    /\ IF conns[Top.conn].srv = "eof"
       THEN conns[Top.conn].rd = Len(conns[Top.conn].sent)
       ELSE conns[Top.conn].srv = "reset"
    /\ stack' = SetTop([Top EXCEPT !.pc = "ret", !.res = Result(<<>>, "read")])
    /\ UNCHANGED <<opts, domains, env, mpc, exitCode, i, responseMap,
                   conns, calls, qres>>

\* lines 67-69 with continue for break: the loop reads again after an error
ReadEndContinue ==
    /\ Running /\ Top.pc = "read"
    /\ IF conns[Top.conn].srv = "eof"
       THEN conns[Top.conn].rd = Len(conns[Top.conn].sent)
       ELSE conns[Top.conn].srv = "reset"
    /\ UNCHANGED vars

\* lines 66-69 and 87: ReadString returns an error (end of stream after the
\* last complete line, or a broken connection); what it read is dropped
ReadEnd ==
    /\ Running /\ Top.pc = "read"
    /\ IF conns[Top.conn].srv = "eof"
       THEN conns[Top.conn].rd = Len(conns[Top.conn].sent)
       ELSE conns[Top.conn].srv = "reset"
    /\ stack' = SetTop([Top EXCEPT !.pc = "ret", !.res = Result(Top.sb, "nil")])
    /\ UNCHANGED <<opts, domains, env, mpc, exitCode, i, responseMap,
                   conns, calls, qres>>

\* a recursive call returns to line 78: its deferred close runs, and the
\* caller takes the result as its own
ReturnInner ==
    /\ Len(stack) > 1 /\ Top.pc = "ret"
    /\ conns' = DeferredClose(conns, Top)
    /\ LET caller == stack[Len(stack) - 1]
       IN  stack' = Append(SubSeq(stack, 1, Len(stack) - 2),
                           [caller EXCEPT !.pc = "ret",
                                          !.res = CallerResult(caller, Top.res)])
    /\ UNCHANGED <<opts, domains, env, mpc, exitCode, i, responseMap,
                   calls, qres>>

----------------------------------------------------------------------------
(* recursiveWhoIsQuery and main *)

\* line 38 keeping an entry that is already there
StoreFirstWins(m, domain, result) == m @@ (domain :> result)

\* line 38
Store(m, domain, result) == (domain :> result) @@ m

\* line 37 passing the default port for opts.Port
CallArgsDefaultPort(o, domain) ==
    [server |-> o.Server, port |-> defaultWhoisPort, domain |-> domain]

\* line 37: the arguments of the call
CallArgs(o, domain) == [server |-> o.Server, port |-> o.Port, domain |-> domain]

\* lines 99-102 without os.Exit: the error is logged and main goes on
MainNoDomainNoExit ==
    /\ mpc = "main" /\ Len(domains) = 0
    /\ mpc' = "loop" /\ i' = 1
    /\ UNCHANGED <<opts, domains, env, exitCode, responseMap, stack, conns,
                   calls, qres>>

\* lines 99-102
MainNoDomain ==
    /\ mpc = "main" /\ Len(domains) = 0
    /\ mpc' = "exit" /\ exitCode' = 1
    /\ UNCHANGED <<opts, domains, env, i, responseMap, stack, conns,
                   calls, qres>>

\* lines 99, 104 and 34: main enters recursiveWhoIsQuery
MainQuery ==
    /\ mpc = "main" /\ Len(domains) # 0
    /\ mpc' = "loop" /\ i' = 1 /\ responseMap' = <<>>
    /\ UNCHANGED <<opts, domains, env, exitCode, stack, conns, calls, qres>>

\* lines 36-37: the loop calls the executor for the next domain
Call ==
    /\ mpc = "loop" /\ i <= Len(domains)
    /\ LET a == CallArgs(opts, domains[i])
       IN  /\ stack' = <<Frame(a.server, a.port, a.domain)>>
           /\ calls' = Append(calls, a)
    /\ conns' = <<>>
    /\ mpc' = "query"
    /\ UNCHANGED <<opts, domains, env, exitCode, i, responseMap, qres>>

\* lines 37-38 leaving the loop when the query failed
ReturnOuterAbort ==
    /\ Len(stack) = 1 /\ Top.pc = "ret"
    /\ conns' = DeferredClose(conns, Top)
    /\ stack' = <<>>
    /\ responseMap' = Store(responseMap, domains[i], Top.res)
    /\ qres' = Append(qres, Top.res)
    /\ i' = IF Top.res.Error # "nil" THEN Len(domains) + 1 ELSE i + 1
    /\ mpc' = "loop"
    /\ UNCHANGED <<opts, domains, env, exitCode, calls>>

\* the outermost call returns to line 37; line 38 stores its result
ReturnOuter ==
    /\ Len(stack) = 1 /\ Top.pc = "ret"
    /\ conns' = DeferredClose(conns, Top)
    /\ stack' = <<>>
    /\ responseMap' = Store(responseMap, domains[i], Top.res)
    /\ qres' = Append(qres, Top.res)
    /\ i' = i + 1
    /\ mpc' = "loop"
    /\ UNCHANGED <<opts, domains, env, exitCode, calls>>

\* line 141 testing that some lookup failed, for all of them
PrintResultsAnyErrored ==
    /\ mpc = "loop" /\ i > Len(domains)
    /\ LET errored == {d \in DOMAIN responseMap : responseMap[d].Error # "nil"}
       IN  exitCode' = IF Cardinality(errored) > 0 THEN 1 ELSE 0
    /\ mpc' = "exit"
    /\ UNCHANGED <<opts, domains, env, i, responseMap, stack, conns,
                   calls, qres>>

\* line 41, then lines 106 and 130-144; main returning is exit status 0
PrintResults ==
    /\ mpc = "loop" /\ i > Len(domains)
    /\ LET errored == {d \in DOMAIN responseMap : responseMap[d].Error # "nil"}
       IN  exitCode' = IF Cardinality(errored) = Cardinality(DOMAIN responseMap)
                       THEN 1 ELSE 0
    /\ mpc' = "exit"
    /\ UNCHANGED <<opts, domains, env, i, responseMap, stack, conns,
                   calls, qres>>

----------------------------------------------------------------------------
(* Specifications *)

Next ==
    \/ MainNoDomain
    \/ MainQuery
    \/ Call
    \/ DialOK
    \/ DialFail
    \/ WriteOK
    \/ WriteFail
    \/ \E line \in env.lines : ServerSend(line)
    \/ \E tail \in Tails : ServerClose(tail)
    \/ ServerReset
    \/ ReadLine
    \/ ReadEnd
    \/ ReturnInner
    \/ ReturnOuter
    \/ PrintResults

RECURSIVE SeqsUpTo(_, _)
\* the sequences over S of length at most n
SeqsUpTo(S, n) ==
    IF n = 0 THEN {<<>>}
    ELSE LET shorter == SeqsUpTo(S, n - 1)
         IN  shorter \cup {Append(s, x) : s \in shorter, x \in S}

\* the state when main starts, the flags parsed
InitProgram ==
    /\ mpc = "main" /\ exitCode = -1 /\ i = 0
    /\ responseMap = <<>> /\ stack = <<>> /\ conns = <<>>
    /\ calls = <<>> /\ qres = <<>>

\* one query, against servers that redirect in every way
Init ==
    /\ InitProgram
    /\ opts \in [Server : {ServerA}, Port : Ports]
    /\ domains \in SeqsUpTo(Domains, 1)
    /\ env = [lines |-> QueryLines, max |-> MaxLines]

\* one query, against servers that send long lines
InitCeiling ==
    /\ InitProgram
    /\ opts = [Server |-> ServerA, Port |-> defaultWhoisPort]
    /\ domains \in SeqsUpTo({Str(<<"d">>)}, 1)
    /\ env = [lines |-> CeilingLines, max |-> MaxLongLines]

\* a batch of domains
InitBatch ==
    /\ InitProgram
    /\ opts \in [Server : {ServerA}, Port : Ports]
    /\ domains \in SeqsUpTo(BatchDomains, MaxDomains)
    /\ env = [lines |-> BatchLines, max |-> MaxBatchLines]

Spec == Init /\ [][Next]_vars

SpecCeiling == InitCeiling /\ [][Next]_vars

SpecBatch == InitBatch /\ [][Next]_vars

\* the steps of the program itself: a step it can take, it takes
ClientStep ==
    \/ MainNoDomain
    \/ MainQuery
    \/ Call
    \/ DialOK
    \/ DialFail
    \/ WriteOK
    \/ WriteFail
    \/ ReadLine
    \/ ReadEnd
    \/ ReturnInner
    \/ ReturnOuter
    \/ PrintResults

\* the runs with long lines in which the program is never suspended for ever
FairCeiling == SpecCeiling /\ WF_vars(ClientStep)

\* a server whose stream is open closes it
ServerStep == \E tail \in Tails : ServerClose(tail)

\* one query, against servers that redirect to one another; they send, all
\* together, as many lines as the deepest chain explored has hops
InitChain ==
    /\ InitProgram
    /\ opts = [Server |-> ServerA, Port |-> defaultWhoisPort]
    /\ domains \in SeqsUpTo({Str(<<"d">>)}, 1)
    /\ env = [lines |-> ChainLines, max |-> MaxChainLines]

\* the runs of such a query in which the program is never suspended for ever
\* and every server closes its stream after the lines it sends
FairChain ==
    InitChain /\ [][Next]_vars /\ WF_vars(ClientStep) /\ WF_vars(ServerStep)

----------------------------------------------------------------------------
(* Vocabulary of the properties *)

\* a line is a redirect hint: trimmed and lowercased it starts with the prefix
HintLine(line) == HasPrefix(TrimSpace(ToLower(line)), Prefix)

\* the server a hint names: what follows the prefix in the line, trimmed
HintTarget(line) == TrimSpace(SliceFrom(TrimLeft(line), StrLen(Prefix)))

RECURSIVE Concat(_)
\* the concatenation of a sequence of strings
Concat(ss) == IF ss = <<>> THEN <<>> ELSE Cat(Head(ss), Concat(Tail(ss)))

\* the last call made by the batch loop has returned; conns are its connections
Returned == Len(qres) > 0 /\ Len(qres) = Len(calls)

LastRes == qres[Len(qres)]

\* the lines read so far on connection c
LinesRead(c) == SubSeq(c.sent, 1, c.rd)

NoHintIn(lines) == \A k \in 1..Len(lines) : ~HintLine(lines[k])

\* the server of the only connection answered without any hint and closed
PlainServerClosed ==
    /\ Returned /\ Len(conns) = 1
    /\ conns[1].ok /\ ~conns[1].wfail /\ conns[1].srv = "eof"
    /\ NoHintIn(conns[1].sent)

\* the number of leading lines that are read before the buffer is at the
\* ceiling: all of them when it never is
ReadCount(lines) ==
    IF \E k \in 1..Len(lines) : StrLen(Concat(SubSeq(lines, 1, k))) >= maxBufferSize
    THEN CHOOSE k \in 1..Len(lines) :
             /\ StrLen(Concat(SubSeq(lines, 1, k))) >= maxBufferSize
             /\ \A j \in 1..(k - 1) :
                    StrLen(Concat(SubSeq(lines, 1, j))) < maxBufferSize
    ELSE Len(lines)

\* the step reads one line on the connection of the running call
ReadsLine ==
    /\ Running /\ Top.pc = "read"
    /\ Len(conns') = Len(conns)
    /\ conns'[Top.conn].rd = conns[Top.conn].rd + 1

\* the line such a step reads
LineRead == conns[Top.conn].sent[conns[Top.conn].rd + 1]

----------------------------------------------------------------------------
(* Properties *)

\* C1, as stated: when the only server contacted sends lines without a redirect
\* hint and closes the stream, the result is the concatenation of all the lines
\* the server sent, with no error.
C1_AllLinesReturned ==
    PlainServerClosed => LastRes = Result(Concat(conns[1].sent), "nil")

\* C1, amended: the result is the concatenation of the lines the server sent up
\* to and including the first line with which the accumulated length reaches
\* maxBufferSize (of all the lines when it never does), with no error.
C1_LinesUpToCeiling ==
    PlainServerClosed =>
        /\ conns[1].rd = ReadCount(conns[1].sent)
        /\ LastRes = Result(Concat(SubSeq(conns[1].sent, 1,
                                          ReadCount(conns[1].sent))), "nil")

\* a closed plain stream of three lines of which the first two fill the buffer
C1_Witness ==
    /\ PlainServerClosed
    /\ Len(conns[1].sent) = 3
    /\ ReadCount(conns[1].sent) = 2

\* C2: a line read from server S that carries a hint naming a non-empty target
\* T # S makes the executor dial T next, whatever was read before; the call
\* returns the result of the query against T, and a successful result holds
\* only lines read on the last connection of the chain.
C2_RedirectFollowed ==
    [][/\ (ReadsLine /\ HintLine(LineRead)
              /\ HintTarget(LineRead) \notin {<<>>, Top.server})
          => /\ Len(stack') = Len(stack) + 1
             /\ stack'[Len(stack')].pc = "dial"
             /\ stack'[Len(stack')].server = HintTarget(LineRead)
       /\ (Len(stack) > 1 /\ Len(stack') = Len(stack) - 1)
          => stack'[Len(stack')].res = Top.res
       /\ (Len(qres') = Len(qres) + 1 /\ qres'[Len(qres')].Error = "nil")
          => qres'[Len(qres')].Response
                 = Concat(LinesRead(conns[Len(conns)]))
      ]_vars

\* C3: a hint read from server S that names S itself, or no server at all,
\* dials nothing: the line is appended and the call goes on reading the same
\* connection.
C3_NoDialOnSelfOrEmpty ==
    [][(ReadsLine /\ HintLine(LineRead)
           /\ HintTarget(LineRead) \in {<<>>, Top.server})
       => /\ Len(stack') = Len(stack)
          /\ stack'[Len(stack')].sb = Cat(Top.sb, LineRead)
          /\ stack'[Len(stack')].pc = "read"
          /\ stack'[Len(stack')].conn = Top.conn
      ]_vars

\* the only server contacted has sent more than maxBufferSize bytes of lines
\* without a hint, and the call is still reading
FloodedReader ==
    /\ Len(stack) = 1 /\ Top.pc = "read" /\ Len(conns) = 1
    /\ NoHintIn(conns[1].sent)
    /\ StrLen(Concat(conns[1].sent)) > maxBufferSize

\* the call has returned at least maxBufferSize bytes and no error
CeilingResult ==
    /\ Returned
    /\ LastRes.Error = "nil"
    /\ StrLen(LastRes.Response) >= maxBufferSize

\* C4: against a server that sends more than maxBufferSize bytes of lines
\* without a hint and never closes the connection, the call returns, with no
\* error and a Response of at least maxBufferSize bytes.
C4_CeilingTerminates ==
    (FloodedReader /\ conns[1].srv = "open")
        ~> (CeilingResult \/ (Len(conns) = 1 /\ conns[1].srv # "open"))

\* the call returned from a connection that was flooded and is still open
C4_Witness ==
    /\ CeilingResult
    /\ Len(conns) = 1 /\ conns[1].srv = "open"
    /\ NoHintIn(conns[1].sent)
    /\ StrLen(Concat(conns[1].sent)) > maxBufferSize

\* C5: a failed dial makes the call return a connection error with an empty
\* Response; nothing is written to, read from or closed on that hop.
C5_DialFailure ==
    /\ \A n \in 1..Len(conns) :
           ~conns[n].ok =>
               /\ conns[n].wrote = <<>> /\ ~conns[n].wfail
               /\ conns[n].rd = 0 /\ conns[n].closes = 0
               /\ (n <= Len(stack) /\ stack[n].conn = n) =>
                      /\ stack[n].pc = "ret"
                      /\ stack[n].res = Result(<<>>, "connect")
    /\ (Returned /\ Len(conns) = 1 /\ ~conns[1].ok)
           => LastRes = Result(<<>>, "connect")

\* the first dial of a query failed and the query has returned
C5_Witness == Returned /\ Len(conns) = 1 /\ ~conns[1].ok

\* C6: at most one connection of a chain is open at any time.
C6_OneOpenConnection ==
    Cardinality({n \in 1..Len(conns) : conns[n].open}) <= 1

\* C7: when the dial or the write fails on a redirect target, at any depth,
\* the query returns that error and an empty Response.
C7_RedirectTargetFailure ==
    \A n \in 2..Len(conns) :
        (Returned /\ (~conns[n].ok \/ conns[n].wfail)) =>
            LastRes = Result(<<>>, IF conns[n].ok THEN "send" ELSE "connect")

\* a query whose first server sent text and then a hint, and whose redirect
\* target failed, has returned
C7_Witness ==
    /\ Returned /\ Len(conns) = 2
    /\ conns[1].rd = 2
    /\ ~conns[2].ok \/ conns[2].wfail

\* recursiveWhoIsQuery has returned its map
BatchReturned ==
    \/ mpc = "loop" /\ i > Len(domains)
    \/ mpc = "exit" /\ Len(domains) > 0

\* C8: the executor is called once per element of the input, in order, with
\* (opts.Server, opts.Port, domain), and the keys of the returned map are the
\* domains of the input.
C8_OneCallOneEntry ==
    /\ Len(calls) <= Len(domains)
    /\ \A k \in 1..Len(calls) :
           calls[k] = [server |-> opts.Server, port |-> opts.Port,
                       domain |-> domains[k]]
    /\ BatchReturned =>
           /\ Len(calls) = Len(domains)
           /\ DOMAIN responseMap = {domains[k] : k \in 1..Len(domains)}

\* a batch of two distinct domains has returned, the last query after a redirect
C8_Witness ==
    /\ BatchReturned
    /\ Len(domains) = 2 /\ domains[1] # domains[2]
    /\ Len(conns) = 2

\* the domain at position k occurs once in the input
OccursOnce(k) == \A j \in 1..Len(domains) : domains[j] = domains[k] => j = k

\* C9: failures do not abort or alter the batch: every domain is queried, after
\* a failed query too, and from the return of its query on the map holds, for a
\* domain that occurs once, the result of that query.
C9_FailureIsolated ==
    /\ BatchReturned => Len(qres) = Len(domains)
    /\ \A k \in 1..Len(qres) :
           OccursOnce(k) =>
               /\ domains[k] \in DOMAIN responseMap
               /\ responseMap[domains[k]] = qres[k]

\* a batch of two domains has returned: the first query failed, the second
\* did not
C9_Witness ==
    /\ BatchReturned
    /\ Len(domains) = 2 /\ domains[1] # domains[2]
    /\ qres[1].Error # "nil" /\ qres[2].Error = "nil"
    /\ qres[2].Response # <<>>

\* C10: a domain that occurs more than once has one entry, the result of the
\* last query made for it.
C10_LastWriteWins ==
    \A j \in 1..Len(qres) : \A k \in 1..Len(qres) :
        (j < k /\ domains[j] = domains[k]
             /\ \A m \in (k + 1)..Len(qres) : domains[m] # domains[k])
        => /\ responseMap[domains[k]] = qres[k]
           /\ Cardinality(DOMAIN responseMap)
                  = Cardinality({domains[m] : m \in 1..Len(qres)})

\* the same domain was queried twice, with different results
C10_Witness ==
    /\ BatchReturned
    /\ Len(domains) = 2 /\ domains[1] = domains[2]
    /\ qres[1] # qres[2]

\* the process has exited after querying a non-empty batch
BatchExited == mpc = "exit" /\ Len(domains) > 0

\* position k is the last occurrence of its domain in the input
LastOccurrence(k) ==
    \A j \in (k + 1)..Len(domains) : domains[j] # domains[k]

\* C11, as stated: after a non-empty batch the exit code is 1 if and only if
\* every query made resulted in an error; it is 0 as soon as one query
\* succeeded.
C11_ExitOneIffAllQueriesFailed ==
    BatchExited =>
        exitCode = IF \A k \in 1..Len(qres) : qres[k].Error # "nil" THEN 1 ELSE 0

\* C11, amended: after a non-empty batch the exit code is 1 if and only if,
\* for every distinct domain of the input, the last query made for that domain
\* resulted in an error; otherwise it is 0, even when other queries failed.
C11_ExitOneIffAllEntriesFailed ==
    BatchExited =>
        /\ Len(qres) = Len(domains)
        /\ exitCode = IF \A k \in 1..Len(qres) :
                             LastOccurrence(k) => qres[k].Error # "nil"
                      THEN 1 ELSE 0

\* a batch of two distinct domains, one query failed and one succeeded, has
\* exited with code 0
C11_Witness ==
    /\ BatchExited /\ exitCode = 0
    /\ Len(domains) = 2 /\ domains[1] # domains[2]
    /\ qres[1].Error = "nil" /\ qres[2].Error # "nil"

\* C12: when no domain is supplied the process exits with status 1, and
\* neither recursiveWhoIsQuery nor performSingleWhoIsQuery is ever called: no
\* connection is dialed.
C12_NoDomainNoDial ==
    Len(domains) = 0 =>
        /\ mpc \in {"main", "exit"}
        /\ mpc = "exit" => exitCode = 1
        /\ i = 0 /\ calls = <<>> /\ stack = <<>> /\ conns = <<>>

\* the process has exited on an empty command line
C12_Witness == Len(domains) = 0 /\ mpc = "exit" /\ exitCode = 1

\* frame n of the stack is waiting at line 78 for the call it made
Redirected(n) == n < Len(stack) /\ stack[n].pc = "call"

\* the line on which frame n made that call: the last one it read
RedirectLine(n) == conns[stack[n].conn].sent[conns[stack[n].conn].rd]

\* C13: the redirect target used for a hint line, also one with white space
\* before the prefix, is what follows the prefix in the line, in its original
\* case, with surrounding white space trimmed.
C13_TargetAfterPrefix ==
    \A n \in 1..Len(stack) :
        Redirected(n) =>
            /\ HintLine(RedirectLine(n))
            /\ stack[n + 1].server = HintTarget(RedirectLine(n))

\* the step reads a line with which the buffer of the running call reaches
\* maxBufferSize
ReadsToCeiling ==
    ReadsLine /\ StrLen(Cat(Top.sb, LineRead)) >= maxBufferSize

\* the step ends the running call with the buffer, the line read appended,
\* and no error
ReturnsBuffer ==
    /\ Len(stack') = Len(stack)
    /\ stack'[Len(stack')].pc = "ret"
    /\ stack'[Len(stack')].res = Result(Cat(Top.sb, LineRead), "nil")

\* C14, as stated: when the buffer has reached maxBufferSize after a line is
\* appended, no further line is read and the call returns the buffer with no
\* error, whatever the line is.
C14_CeilingReturnsBuffer ==
    [][ReadsToCeiling => ReturnsBuffer]_vars

\* C14, amended: the same, unless the line is a redirect hint that the
\* executor follows: then the target is dialed and the buffer is not returned.
C14_CeilingReturnsUnlessRedirect ==
    [][ReadsToCeiling =>
          IF Len(stack') > Len(stack)
          THEN /\ HintLine(LineRead)
               /\ stack'[Len(stack')].pc = "dial"
          ELSE ReturnsBuffer
      ]_vars

\* a call has ended at the ceiling while a line sent to it is still unread
C14_Witness ==
    /\ Running /\ Top.pc = "ret" /\ Top.conn > 0
    /\ Top.res.Error = "nil"
    /\ Top.res.Response = Top.sb
    /\ StrLen(Top.sb) >= maxBufferSize
    /\ conns[Top.conn].srv = "open"
    /\ conns[Top.conn].rd < Len(conns[Top.conn].sent)

\* the chain of redirects has reached the depth to which the model follows it,
\* and the line to be read next redirects once more
ChainCut ==
    /\ Len(stack) = MaxHops /\ Top.pc = "read"
    /\ conns[Top.conn].rd < Len(conns[Top.conn].sent)
    /\ Follows(LineRead, Top.server)

LastConn == conns[Len(conns)]

\* the last query has returned after reading its last connection, whose
\* stream ended or broke
StreamEnded ==
    /\ Returned /\ Len(conns) > 0
    /\ LastConn.ok /\ ~LastConn.wfail
    /\ LastConn.srv \in {"eof", "reset"}

\* C16: a read that fails or reaches the end of the stream is not an error:
\* the call returns, with no error, the text gathered so far on that
\* connection, that is the lines read on it.
C16_ReadErrorAbsorbed ==
    StreamEnded => LastRes = Result(Concat(LinesRead(LastConn)), "nil")

\* the connection broke after one line was read and before the next one was
\* read: the result is that one line
C16_Witness ==
    /\ StreamEnded /\ Len(conns) = 1
    /\ conns[1].srv = "reset"
    /\ conns[1].rd = 1 /\ Len(conns[1].sent) = 2
    /\ LastRes.Response # <<>>

\* a result has at most one of a non-empty Response and an error
OneOf(res) == res.Error # "nil" => res.Response = <<>>

\* C17: every result of performSingleWhoIsQuery, at every depth of the
\* recursion, has at most one of a non-empty Response and an error.
C17_ResponseOrError ==
    /\ \A n \in 1..Len(stack) : stack[n].pc = "ret" => OneOf(stack[n].res)
    /\ \A k \in 1..Len(qres) : OneOf(qres[k])

\* a query that read text from its first server has returned the write error
\* of the second
C17_Witness ==
    /\ Returned /\ Len(conns) = 2
    /\ conns[1].rd = 2 /\ conns[2].wfail
    /\ LastRes.Error = "send"

\* C18: every hop of a query dials one connection of its own, no connection
\* is closed twice, and when the query returns every connection it opened has
\* been closed exactly once and none is open.
C18_ClosedExactlyOnce ==
    /\ Len(stack) <= Len(conns) + 1
    /\ \A n \in 1..Len(stack) :
           stack[n].conn = IF stack[n].pc = "dial" THEN 0 ELSE n
    /\ \A n \in 1..Len(conns) :
           /\ conns[n].closes <= 1
           /\ conns[n].open <=> (conns[n].ok /\ conns[n].closes = 0)
           /\ n > Len(stack) => ~conns[n].open
    /\ Returned =>
           \A n \in 1..Len(conns) :
               /\ ~conns[n].open
               /\ conns[n].closes = IF conns[n].ok THEN 1 ELSE 0

\* a query has returned at the ceiling from the second server of its chain
C18_Witness ==
    /\ Returned /\ Len(conns) = 2
    /\ conns[1].ok /\ conns[2].ok /\ conns[2].srv = "open"
    /\ StrLen(LastRes.Response) >= maxBufferSize

\* the arguments of the query in progress, or of the last one
LastCall == calls[Len(calls)]

\* the query line of the domain
QueryLine(domain) == Cat(domain, Str(<<"\r", "\n">>))

\* C19: every hop of a chain dials the port of the original call and carries
\* its domain; on a connection, the only thing ever written is one query line,
\* the domain followed by CRLF, and it is written before a line is read.
C19_OnlyServerChanges ==
    /\ \A n \in 1..Len(stack) :
           /\ stack[n].port = LastCall.port
           /\ stack[n].domain = LastCall.domain
    /\ \A n \in 1..Len(conns) :
           /\ conns[n].port = LastCall.port
           /\ conns[n].wrote \in {<<>>, <<QueryLine(LastCall.domain)>>}
           /\ (conns[n].rd > 0 \/ conns[n].sent # <<>>)
                  => conns[n].wrote = <<QueryLine(LastCall.domain)>>
           /\ ~conns[n].ok => conns[n].wrote = <<>>

\* a query for the empty domain on the other port has read a line from the
\* second server of its chain
C19_Witness ==
    /\ Len(conns) = 2 /\ conns[2].rd = 1
    /\ conns[2].server # conns[1].server
    /\ LastCall.domain = <<>> /\ LastCall.port # defaultWhoisPort
    /\ conns[1].wrote = <<Str(<<"\r", "\n">>)>>

RECURSIVE DropToNewline(_)
\* s cut back to its last "\n": s without the bytes after it
DropToNewline(s) ==
    IF s = <<>> \/ s[Len(s)].c = "\n" THEN s
    ELSE DropToNewline(SubSeq(s, 1, Len(s) - 1))

\* a text of newline-terminated lines without its final line
DropLastLine(s) ==
    IF s = <<>> THEN s
    ELSE IF s[Len(s)].n > 1
    THEN [s EXCEPT ![Len(s)].n = @ - 1]
    ELSE DropToNewline(SubSeq(s, 1, Len(s) - 1))

\* C20: a line is read only while the buffer is strictly below maxBufferSize,
\* and a successful Response without its final line is strictly shorter than
\* maxBufferSize.
C20_OverrunByOneLine ==
    /\ \A n \in 1..Len(stack) :
           stack[n].pc = "read" => StrLen(stack[n].sb) < maxBufferSize
    /\ \A k \in 1..Len(qres) :
           qres[k].Error = "nil" =>
               StrLen(DropLastLine(qres[k].Response)) < maxBufferSize

\* a query has returned more than maxBufferSize bytes
C20_Witness ==
    /\ Returned /\ LastRes.Error = "nil"
    /\ StrLen(LastRes.Response) > maxBufferSize
    /\ StrLen(DropLastLine(LastRes.Response)) > 0

====
